---------------------------- MODULE Spec2Model ----------------------------
(***************************************************************************)
(* A model of the frame table (src/vm/frame.c) and of the system-call      *)
(* dispatcher with its user-memory copy layer (src/userprog/syscall.c).    *)
(*                                                                         *)
(* Spec    : the frame table under any sequence of frame_alloc/frame_free  *)
(*           calls made by any processes.                                  *)
(* SpecSys : the system-call dispatcher, one trap after another.           *)
(***************************************************************************)
EXTENDS Integers, Sequences, FiniteSets, TLC

(***************************************************************************)
(* Bounds of the model.                                                    *)
(***************************************************************************)
NumPages == 2       \* pages in the user pool of the physical page source
MaxFte == 2         \* struct fte objects malloc can hand out at one time
MaxRef == 2         \* struct fte_reference objects malloc can hand out
MaxUnderflow == 1   \* how far below zero a refcnt is followed

NULL == 0

Pages == 1..NumPages
FteIds == 1..MaxFte
\* Processes and user virtual addresses are only stored and compared.
Procs == {1, 2}
Vaddrs == {1, 2}

VARIABLES
  fte,        \* the malloc heap of struct fte, by address
  nrefs,      \* how many struct fte_reference objects malloc has handed out
  hand,       \* the hand of the circular list ft (NULL when ft is empty)
  pool,       \* the free pages of the user pool (palloc)
  zeroed,     \* the pages whose PGSIZE bytes are all zero
  panicked,   \* the kernel has stopped in PANIC
  victims,    \* how many times frame_get_victim has run
  last        \* the last frame-table call: its arguments and result

fvars == <<fte, nrefs, hand, pool, zeroed, panicked, victims, last>>

VARIABLES
  mapped,       \* the user pages mapped in the process's page directory
  nul,          \* the user addresses that hold a NUL byte
  kzero,        \* whether the first byte of kernel memory is NUL
  pc,           \* where the dispatcher is in the current trap
  esp,          \* f->esp of the current trap
  syscall_num,  \* the call number read from the stack ("none": not read)
  call,         \* the system call dispatched and what it returned
  eax,          \* f->eax
  exit_status,  \* cur->exit_status
  putbuf_out,   \* the bytes written to the console by putbuf in this trap
  fs_ops,       \* the file-system and process services invoked in this trap
  lastfd,       \* t->lastfd of the calling process
  fds,          \* the descriptors open has returned to the process, in order
  open_failed   \* an open of the process has failed, for want of the file or
                \* of the descriptor entry, since open returned it a descriptor

svars == <<mapped, nul, kzero, pc, esp, syscall_num, call, eax, exit_status,
           putbuf_out, fs_ops, lastfd, fds, open_failed>>

VARIABLES
  exec_pc,      \* where the caller of exec is between process_execute and return
  pid,          \* what process_execute returned to the current exec
  child,        \* what get_thread_by_tid returned to the current exec
  thread,       \* the state of each thread process_execute can create
  loaded        \* the value of each such thread's semaphore loaded

xvars == <<exec_pc, pid, child, thread, loaded>>

\* t->lastfd and the descriptors handed out: only open touches them.
Descriptors == <<lastfd, fds, open_failed>>

(***************************************************************************)
(* Heap objects.  A slot that malloc has not handed out holds the          *)
(* canonical free record.                                                  *)
(***************************************************************************)
FreeFte ==
  [used |-> FALSE, paddr |-> NULL, refcnt |-> 0, reference_list |-> <<>>,
   next |-> NULL, prev |-> NULL]

\* malloc (sizeof *x): the lowest free address, or NULL when the allocation
\* fails (ok = FALSE: the allocator reports failure; or no slot is left).
malloc_fte(heap, ok) ==
  LET free == {i \in FteIds : ~heap[i].used}
  IN  IF ok /\ free # {} THEN CHOOSE i \in free : \A j \in free : i <= j
      ELSE NULL

\* malloc of a struct fte_reference: whether it succeeds.  The address of a
\* reference is never compared, so the heap of references is kept as a count;
\* a reference is held by value in the reference_list it is linked into.
malloc_ref(n, ok) == ok /\ n < MaxRef

(***************************************************************************)
(* The frame-table state handled by the operators below: a record of the   *)
(* heaps, the hand and the page pool.                                      *)
(***************************************************************************)
FrameState ==
  [fte |-> fte, nrefs |-> nrefs, hand |-> hand, pool |-> pool,
   zeroed |-> zeroed]

\* init_fte: every field of a freshly allocated fte.
init_fte(S, e) ==
  [S EXCEPT !.fte[e] =
     [used |-> TRUE, paddr |-> NULL, refcnt |-> 0, reference_list |-> <<>>,
      next |-> NULL, prev |-> NULL]]

(***************************************************************************)
(* clist: a circular doubly linked list with a hand and no sentinel node.  *)
(***************************************************************************)
clist_hand(S) == S.hand

\* Insert e at the tail: just before the hand, which is the head of the ring.
clist_push_back(S, e) ==
  IF S.hand = NULL
    THEN [S EXCEPT !.fte[e].next = e, !.fte[e].prev = e, !.hand = e]
    ELSE LET h == S.hand
             t == S.fte[h].prev
         IN  [S EXCEPT !.fte[e].next = h, !.fte[e].prev = t,
                        !.fte[t].next = e, !.fte[h].prev = e]

\* Unlink e; a hand on e moves to e's successor, or to NULL when e was alone.
clist_remove(S, e) ==
  LET n == S.fte[e].next
      p == S.fte[e].prev
  IN  IF n = e
        THEN [S EXCEPT !.hand = NULL, !.fte[e].next = NULL, !.fte[e].prev = NULL]
        ELSE [S EXCEPT !.fte[p].next = n, !.fte[n].prev = p,
                       !.hand = IF S.hand = e THEN n ELSE S.hand,
                       !.fte[e].next = NULL, !.fte[e].prev = NULL]

(***************************************************************************)
(* The physical page source (palloc, user pool).                           *)
(***************************************************************************)
\* A page given back holds nothing the next owner can count on.
palloc_free_page(S, fr) ==
  [S EXCEPT !.pool = @ \cup {fr}, !.zeroed = @ \ {fr}]

(***************************************************************************)
(* frame_alloc, after palloc_get_page (PAL_USER) has returned the page fr. *)
(* okFte and okRef say whether the two malloc calls succeed.  The result   *)
(* is the new state, the value returned and the allocation that failed.    *)
(***************************************************************************)
this_is_disaster(S, fr, why) ==
  [state |-> palloc_free_page(S, fr), ret |-> NULL, fail |-> why, p |-> NULL]

\* frame_alloc without the memset: the page is returned as palloc gave it.
memset_skipped(S, fr) == S

\* memset (fr, 0, PGSIZE)
memset_zero(S, fr) == [S EXCEPT !.zeroed = @ \cup {fr}]

frame_alloc_page(S, fr, cur, vaddr, okFte, okRef) ==
  LET S0 == [S EXCEPT !.pool = @ \ {fr}]
      e  == malloc_fte(S0.fte, okFte)
  IN  IF e = NULL THEN this_is_disaster(S0, fr, "fte")
      ELSE
        LET S1 == init_fte(S0, e)
            S2 == clist_push_back(S1, e)
            S3 == [S2 EXCEPT !.fte[e].paddr = fr]
        IN  IF ~malloc_ref(S3.nrefs, okRef) THEN this_is_disaster(S3, fr, "ref")
            ELSE
              LET fte_ref == [process |-> cur, vaddr |-> vaddr]
                  S4 == [S3 EXCEPT
                           !.nrefs = @ + 1,
                           !.fte[e].reference_list = Append(@, fte_ref),
                           !.fte[e].refcnt = 1]
              IN  [state |-> memset_zero(S4, fr), ret |-> fr, fail |-> "none",
                   p |-> e]

(***************************************************************************)
(* frame_free.                                                             *)
(***************************************************************************)
\* The for loop of the scan: from e round to the hand.
RECURSIVE frame_free_loop(_, _, _)
frame_free_loop(S, e, fr) ==
  IF e = clist_hand(S) THEN NULL
  ELSE IF S.fte[e].paddr = fr THEN e
  ELSE frame_free_loop(S, S.fte[e].next, fr)

\* The fte the scan stops at (goto do_frame_free), or NULL (return).
frame_free_find(S, fr) ==
  LET e == clist_hand(S)
  IN  IF e = NULL THEN NULL
      ELSE IF S.fte[e].paddr = fr THEN e
      ELSE frame_free_loop(S, S.fte[e].next, fr)

\* The first reference of cur in p's reference_list: its index, or 0.
own_reference(S, p, cur) ==
  LET l == S.fte[p].reference_list
      I == {i \in 1..Len(l) : l[i].process = cur}
  IN  IF I = {} THEN 0 ELSE CHOOSE i \in I : \A j \in I : i <= j

\* list_remove (re); free (fter); break;
remove_reference(S, p, cur) ==
  LET l == S.fte[p].reference_list
      i == own_reference(S, p, cur)
  IN  IF i = 0 THEN S
      ELSE [S EXCEPT !.fte[p].reference_list =
                        SubSeq(l, 1, i - 1) \o SubSeq(l, i + 1, Len(l)),
                     !.nrefs = @ - 1]

\* release_fte without the clist_remove: the fte is freed while linked.
release_fte_linked(S, p, fr) ==
  IF S.fte[p].refcnt = 0
    THEN [palloc_free_page(S, fr) EXCEPT !.fte[p] = FreeFte]
    ELSE S

\* if (p->refcnt==0) { palloc_free_page; clist_remove; free (p); }
release_fte(S, p, fr) ==
  IF S.fte[p].refcnt = 0
    THEN LET S1 == palloc_free_page(S, fr)
             S2 == clist_remove(S1, p)
         IN  [S2 EXCEPT !.fte[p] = FreeFte]
    ELSE S

\* refcnt is followed as a mathematical integer: a count that is decremented
\* at zero becomes nonzero whatever the width and signedness of the field.
do_frame_free(S, p, cur, fr) ==
  LET S1 == [S EXCEPT !.fte[p].refcnt = @ - 1]
      S2 == remove_reference(S1, p, cur)
  IN  release_fte(S2, p, fr)

\* frame_free without the return before do_frame_free: a scan that finds
\* nothing falls through with the last fte it looked at.
frame_free_call_fallthrough(S, cur, fr) ==
  LET p == frame_free_find(S, fr)
  IN  IF p # NULL THEN do_frame_free(S, p, cur, fr)
      ELSE IF clist_hand(S) = NULL THEN S
      ELSE do_frame_free(S, S.fte[clist_hand(S)].prev, cur, fr)

frame_free_call(S, cur, fr) ==
  LET p == frame_free_find(S, fr)
  IN  IF p = NULL THEN S ELSE do_frame_free(S, p, cur, fr)

(***************************************************************************)
(* frame_get_victim: the clock policy picks an fte of the table and leaves *)
(* the hand just past it.  Which fte depends on the accessed bits of the   *)
(* page tables, so any fte of the ring may be the victim.                  *)
(***************************************************************************)
RECURSIVE ring_from(_, _, _)
ring_from(S, e, n) ==
  IF n = 0 \/ e = NULL THEN <<>>
  ELSE IF S.fte[e].next = S.hand THEN <<e>>
  ELSE <<e>> \o ring_from(S, S.fte[e].next, n - 1)

\* The ftes met by following next from the hand, once round, in order.
Ring(S) == ring_from(S, S.hand, MaxFte + 1)

InTable(S) == {Ring(S)[i] : i \in 1..Len(Ring(S))}

frame_get_victim(S, v) == [S EXCEPT !.hand = S.fte[v].next]

(***************************************************************************)
(* The record of the last call, kept for the properties: its arguments and *)
(* result, the fte it created or found (p), whether that fte was at the    *)
(* hand, whether it was freed and which fte followed it in the ring, and,  *)
(* for a frame_alloc, the table, the references and the pool as they were  *)
(* before the call.                                                        *)
(***************************************************************************)
\* What an fte holds, without its address and links.
Content(S, e) ==
  [paddr |-> S.fte[e].paddr, refcnt |-> S.fte[e].refcnt,
   refs |-> S.fte[e].reference_list]

UsedFtes(S) == {e \in FteIds : S.fte[e].used}

\* The fte_reference objects linked into no fte of the heap: leaked.
RECURSIVE Linked(_, _)
Linked(S, E) ==
  IF E = {} THEN 0
  ELSE LET e == CHOOSE x \in E : TRUE
       IN  Len(S.fte[e].reference_list) + Linked(S, E \ {e})

Leaked(S) == S.nrefs - Linked(S, UsedFtes(S))

Snapshot(S) ==
  [ftes |-> {<<e, Content(S, e)>> : e \in UsedFtes(S)},
   nrefs |-> S.nrefs, pool |-> S.pool]

NoSnapshot == [ftes |-> {}, nrefs |-> 0, pool |-> {}]

NoCall ==
  [op |-> "none", cur |-> NULL, arg |-> NULL, ret |-> NULL, fail |-> "none",
   p |-> NULL, owned |-> FALSE, athand |-> FALSE, freed |-> FALSE,
   succ |-> NULL, undo |-> FALSE, pre |-> NoSnapshot]

FrameInit ==
  /\ fte = [i \in FteIds |-> FreeFte]
  /\ nrefs = 0
  /\ hand = NULL                      \* frame_init: clist_init (&ft)
  /\ pool = Pages
  /\ zeroed = {}
  /\ panicked = FALSE
  /\ victims = 0
  /\ last = NoCall

\* frame_alloc with a page left in the pool.  The caller and its address are
\* recorded for a call that succeeds.
FrameAlloc(cur, vaddr, okFte, okRef) ==
  /\ ~panicked
  /\ pool # {}
  /\ \E fr \in pool :
       LET R == frame_alloc_page(FrameState, fr, cur, vaddr, okFte, okRef)
       IN  /\ fte' = R.state.fte
           /\ nrefs' = R.state.nrefs
           /\ hand' = R.state.hand
           /\ pool' = R.state.pool
           /\ zeroed' = R.state.zeroed
           /\ last' = IF R.ret = NULL
                        THEN [NoCall EXCEPT !.op = "frame_alloc",
                                            !.fail = R.fail]
                        ELSE [NoCall EXCEPT !.op = "frame_alloc", !.cur = cur,
                                            !.arg = vaddr, !.ret = R.ret,
                                            !.p = R.p,
                                            !.pre = Snapshot(FrameState)]
  /\ UNCHANGED <<panicked, victims, svars, xvars>>

\* frame_alloc with the pool exhausted, reclaiming the victim before the stop:
\* its page goes back to the pool and its fte leaves the table.
FrameAllocOutOfFrame_reclaims(cur, vaddr) ==
  /\ ~panicked
  /\ pool = {}
  /\ \E v \in InTable(FrameState) :
       LET S == release_fte([FrameState EXCEPT !.fte[v].refcnt = 0], v,
                            fte[v].paddr)
       IN  /\ fte' = S.fte
           /\ hand' = S.hand
           /\ pool' = S.pool
           /\ zeroed' = S.zeroed
  /\ victims' = victims + 1
  /\ panicked' = TRUE
  /\ last' = [NoCall EXCEPT !.op = "frame_alloc", !.fail = "page"]
  /\ UNCHANGED <<nrefs, svars, xvars>>

\* frame_alloc with the pool exhausted: victim selection, then PANIC.
FrameAllocOutOfFrame(cur, vaddr) ==
  /\ ~panicked
  /\ pool = {}
  /\ \E v \in InTable(FrameState) \cup {NULL} :
       /\ (v = NULL) = (hand = NULL)
       /\ hand' = IF v = NULL THEN NULL ELSE frame_get_victim(FrameState, v).hand
  /\ victims' = victims + 1
  /\ panicked' = TRUE
  /\ last' = [NoCall EXCEPT !.op = "frame_alloc", !.fail = "page"]
  /\ UNCHANGED <<fte, nrefs, pool, zeroed, svars, xvars>>

\* frame_free.  Recorded: whether some fte of the table held the address
\* (owned), and whether the call gives back, for the same process, the page
\* that the call just before it allocated (undo).
FrameFree(cur, fr) ==
  /\ ~panicked
  /\ LET p == frame_free_find(FrameState, fr)
         S == frame_free_call(FrameState, cur, fr)
     IN  /\ p # NULL => fte[p].refcnt > -MaxUnderflow
         /\ fte' = S.fte
         /\ nrefs' = S.nrefs
         /\ hand' = S.hand
         /\ pool' = S.pool
         /\ zeroed' = S.zeroed
         /\ last' = [NoCall EXCEPT
                       !.op = "frame_free",
                       !.p = p,
                       !.owned = (\E e \in UsedFtes(FrameState) :
                                     fte[e].paddr = fr),
                       !.athand = (p # NULL /\ p = hand),
                       !.freed = (p # NULL /\ ~S.fte[p].used),
                       !.succ = IF p = NULL \/ fte[p].next = p THEN NULL
                                ELSE fte[p].next,
                       !.undo = (/\ last.op = "frame_alloc"
                                 /\ last.ret = fr
                                 /\ last.cur = cur),
                       !.pre = IF last.op = "frame_alloc" /\ last.ret = fr
                                  /\ last.cur = cur
                                 THEN last.pre ELSE NoSnapshot]
  /\ UNCHANGED <<panicked, victims, svars, xvars>>

\* The caller and its address play no part in a frame_alloc whose malloc
\* fails, so one caller stands for all in the failing calls.
FrameNext ==
  \/ \E cur \in Procs, vaddr \in Vaddrs : FrameAlloc(cur, vaddr, TRUE, TRUE)
  \/ \E okFte \in BOOLEAN :
       FrameAlloc(CHOOSE c \in Procs : TRUE, CHOOSE v \in Vaddrs : TRUE,
                  okFte, ~okFte)
  \/ \E cur \in Procs, vaddr \in Vaddrs : FrameAllocOutOfFrame(cur, vaddr)
  \/ \E cur \in Procs, fr \in Pages : FrameFree(cur, fr)

(***************************************************************************)
(* The system-call dispatcher and the user-memory copy layer               *)
(* (src/userprog/syscall.c).                                               *)
(*                                                                         *)
(* User virtual addresses are 0 .. PHYS_BASE - 1, in pages of PGSIZE       *)
(* bytes.  Page 0 holds NULL and is never mapped; each page of UserPages   *)
(* is mapped or not.  Kernel memory starts at PHYS_BASE.  A byte of user   *)
(* memory is NUL or a nonzero value that names its address, so a copy can  *)
(* be told from any other.                                                 *)
(***************************************************************************)
PGSIZE == 2         \* bytes in a page (scaled down)
MaxOpen == 2        \* how many descriptors a process is followed through

UserPages == {1, 2}
PHYS_BASE == (Cardinality(UserPages) + 1) * PGSIZE
Addrs == 0..(PHYS_BASE + 1)      \* the pointers user code passes
Lengths == 0..(PGSIZE + 1)       \* the lengths user code passes
\* The stack pointers of the traps: the addresses of page 0, NULL among them,
\* the first address of each user page, and the kernel addresses.
StackPointers ==
  {a \in Addrs : a < PGSIZE \/ a >= PHYS_BASE \/ a % PGSIZE = 0}

EaxAtTrap == 99     \* f->eax as the user left it: no value a call returns
Uninit == 255       \* a byte of a page from palloc_get_page (0), never written
STDOUT_FILENO == 1
TID_ERROR == -1
FirstFd == 1        \* t->lastfd of a new process

MIN(x, y) == IF x > y THEN y ELSE x

pg_ofs(a) == a % PGSIZE
pg_round_down(a) == a - (a % PGSIZE)
pg_no(a) == a \div PGSIZE

(***************************************************************************)
(* Pointers the kernel dereferences.  kern: the kernel alias of a mapped   *)
(* user address (what user_vtop returns); otherwise a raw virtual address, *)
(* which the kernel reads through the process's page directory (below      *)
(* PHYS_BASE) or from kernel memory (from PHYS_BASE up).                   *)
(***************************************************************************)
NullPtr == [kern |-> FALSE, a |-> NULL]

user_vtop(ua) ==
  IF ua < PHYS_BASE /\ pg_no(ua) \in mapped
    THEN [kern |-> TRUE, a |-> ua]
    ELSE NullPtr

\* A kernel-mode read of *p page-faults.
Faults(p) == ~p.kern /\ p.a < PHYS_BASE /\ pg_no(p.a) \notin mapped

UserByte(a) == IF a \in nul THEN 0 ELSE 10 + a

KernelByte(o) == IF kzero /\ o = 0 THEN 0 ELSE 7

Deref(p) ==
  IF ~p.kern /\ p.a >= PHYS_BASE THEN KernelByte(p.a - PHYS_BASE)
  ELSE UserByte(p.a)

Plus(p, n) == [p EXCEPT !.a = @ + n]

\* str_over_boundary: "false" when a NUL lies between s and the end of its
\* page, "true" when none does, "fault" when reading the page faults.
str_over_boundary(s) ==
  LET page == pg_round_down(s.a)
      offsets == pg_ofs(s.a)..(PGSIZE - 1)
  IN  IF Faults(s) THEN "fault"
      ELSE IF \E o \in offsets : Deref([s EXCEPT !.a = page + o]) = 0
        THEN "false"
        ELSE "true"

\* strlen (s), for an s that is not over the boundary.
strlen(s) ==
  LET N == {n \in 0..(PGSIZE - 1) : Deref(Plus(s, n)) = 0}
  IN  CHOOSE n \in N : \A m \in N : n <= m

\* dst with the n bytes at s copied to dst[at], dst[at + 1], ...
\* (dst is a page: a sequence of PGSIZE bytes, dst[0] being the first).
copy_bytes(dst, at, s, n) ==
  [i \in 1..PGSIZE |->
     IF at < i /\ i <= at + n THEN Deref(Plus(s, i - 1 - at)) ELSE dst[i]]

put_byte(dst, at, b) == [dst EXCEPT ![at + 1] = b]

FreshPage == [i \in 1..PGSIZE |-> Uninit]

\* s = pg_round_down (src + PGSIZE): the pointer strlbond reads the page
\* after src's through, a user virtual address as it stands.
second_page(src) == [kern |-> FALSE, a |-> pg_round_down(src + PGSIZE)]

\* strlbond (dst, src, size), size >= 1: how it ends ("ok", "fault": a page
\* fault in the kernel, "assert": the ASSERT fails) and the page dst after it.
strlbond(dst, src, size) ==
  LET s0 == user_vtop(src)
      soffset == pg_ofs(src)
      over == str_over_boundary(s0)
  IN  IF over = "fault" THEN [status |-> "fault", dst |-> dst]
      ELSE
        LET doffset == IF over = "true" THEN MIN(PGSIZE - soffset, size - 1)
                       ELSE 0
            dst1 == IF over = "true"
                      THEN put_byte(copy_bytes(dst, 0, s0, doffset), doffset, 0)
                      ELSE dst
            s == IF over = "true"
                   THEN second_page(src)
                   ELSE s0
            over2 == str_over_boundary(s)
        IN  IF over2 = "fault" THEN [status |-> "fault", dst |-> dst1]
            ELSE IF over2 = "true" THEN [status |-> "assert", dst |-> dst1]
            ELSE
              LET len == MIN(strlen(s), size - doffset - 1)
              IN  [status |-> "ok",
                   dst |-> put_byte(copy_bytes(dst1, doffset, s, len),
                                    doffset + len, 0)]

\* The C string held in a page: its bytes up to the first NUL.
RECURSIVE cstring(_, _)
cstring(page, i) ==
  IF i > PGSIZE \/ page[i] = 0 THEN <<>>
  ELSE <<page[i]>> \o cstring(page, i + 1)

\* The loop of write, buffer being the scratch page and size > 0 the bytes
\* left: the bytes given to putbuf and the count written, or how strlbond
\* failed.
RECURSIVE write_loop(_, _, _, _, _)
write_loop(fd, buffer, _buffer, size, wrote) ==
  IF size = 0 THEN [status |-> "ok", out |-> <<>>, wrote |-> wrote]
  ELSE
    LET r == strlbond(buffer, _buffer, MIN(size + 1, PGSIZE))
        n == MIN(size, PGSIZE - 1)
    IN  IF r.status # "ok"
          THEN [status |-> r.status, out |-> <<>>, wrote |-> wrote]
        ELSE
          LET rest == write_loop(fd, r.dst, _buffer, size - n, wrote + n)
          IN  [rest EXCEPT
                 !.out = (IF fd = STDOUT_FILENO THEN SubSeq(r.dst, 1, n)
                          ELSE <<>>) \o @]

(***************************************************************************)
(* syscall_handler, one trap at a time.  pc is "Idle" before the first     *)
(* trap, then "ValidateStackPointer", "DecodeCallNumber", "Dispatch", and  *)
(* ends a trap in "Return" (back to the user process), "Terminated"        *)
(* (thread_exit), "Halted" (shutdown_power_off) or "Panic" (PANIC or a     *)
(* failed ASSERT: the kernel stops).                                       *)
(***************************************************************************)
NoSyscall ==
  [name |-> "none", hasptr |-> FALSE, ptr |-> NULL, returns |-> FALSE,
   ret |-> 0]

SysInit ==
  /\ mapped \in SUBSET UserPages
  /\ nul \in SUBSET {a \in 0..(PHYS_BASE - 1) : pg_no(a) \in mapped}
  /\ kzero \in BOOLEAN
  /\ pc = "Idle"
  /\ esp = NULL
  /\ syscall_num = "none"
  /\ call = NoSyscall
  /\ eax = EaxAtTrap
  /\ exit_status = 0
  /\ putbuf_out = <<>>
  /\ fs_ops = <<>>
  /\ lastfd = FirstFd
  /\ fds = <<>>
  /\ open_failed = FALSE

\* The dispatcher at rest, for the specification of the frame table alone.
SysQuiet ==
  /\ mapped = {}
  /\ nul = {}
  /\ kzero = FALSE
  /\ pc = "Idle"
  /\ esp = NULL
  /\ syscall_num = "none"
  /\ call = NoSyscall
  /\ eax = EaxAtTrap
  /\ exit_status = 0
  /\ putbuf_out = <<>>
  /\ fs_ops = <<>>
  /\ lastfd = FirstFd
  /\ fds = <<>>
  /\ open_failed = FALSE

\* int 0x30 with f->esp = sp, from the process or, once it is terminated,
\* from a new process in the same memory.
Trap(sp) ==
  /\ pc \in {"Idle", "Return", "Terminated"}
  /\ pc' = "ValidateStackPointer"
  /\ esp' = sp
  /\ syscall_num' = "none"
  /\ call' = NoSyscall
  /\ eax' = EaxAtTrap
  /\ exit_status' = 0
  /\ putbuf_out' = <<>>
  /\ fs_ops' = <<>>
  /\ lastfd' = IF pc = "Terminated" THEN FirstFd ELSE lastfd
  /\ fds' = IF pc = "Terminated" THEN <<>> ELSE fds
  /\ open_failed' = (pc # "Terminated" /\ open_failed)
  /\ UNCHANGED <<fvars, xvars, mapped, nul, kzero>>

exit(status) ==
  /\ exit_status' = status
  /\ pc' = "Terminated"

ValidateStackPointer ==
  /\ pc = "ValidateStackPointer"
  /\ IF esp = NULL THEN pc' = "Panic" /\ UNCHANGED exit_status
     ELSE IF esp >= PHYS_BASE THEN exit(-1)
     ELSE IF user_vtop(esp) = NullPtr THEN exit(-1)
     ELSE pc' = "DecodeCallNumber" /\ UNCHANGED exit_status
  /\ UNCHANGED <<fvars, xvars, mapped, nul, kzero, esp, syscall_num, call, eax,
                 putbuf_out, fs_ops, Descriptors>>

Implemented ==
  {"SYS_HALT", "SYS_EXIT", "SYS_EXEC", "SYS_WAIT", "SYS_CREATE", "SYS_REMOVE",
   "SYS_OPEN", "SYS_FILESIZE", "SYS_READ", "SYS_WRITE", "SYS_SEEK", "SYS_TELL",
   "SYS_CLOSE"}

Stubs ==
  {"SYS_MMAP", "SYS_MUNMAP", "SYS_CHDIR", "SYS_MKDIR", "SYS_READDIR",
   "SYS_ISDIR", "SYS_INUMBER"}

\* The values of the word at esp: "other" is any that is no call number.
CallNumbers == Implemented \cup Stubs \cup {"other"}

\* int syscall_num = *esp
DecodeCallNumber(num) ==
  /\ pc = "DecodeCallNumber"
  /\ syscall_num' = num
  /\ pc' = "Dispatch"
  /\ UNCHANGED <<fvars, xvars, mapped, nul, kzero, esp, call, eax, exit_status,
                 putbuf_out, fs_ops, Descriptors>>

Dispatching(num) == pc = "Dispatch" /\ syscall_num = num

Fixed == <<fvars, xvars, mapped, nul, kzero, esp, syscall_num>>

\* The call comes back to syscall_handler, with ret when it returns a value;
\* toeax: the handler stores the value in f->eax.
Return(name, hasptr, ptr, returns, ret, toeax) ==
  /\ pc' = "Return"
  /\ call' = [name |-> name, hasptr |-> hasptr, ptr |-> ptr,
              returns |-> returns, ret |-> ret]
  /\ eax' = IF toeax THEN ret ELSE eax
  /\ UNCHANGED exit_status

\* The call does not come back: strlbond ended in a page fault in the kernel
\* (kills: the page-fault handler terminates the process, otherwise it stops
\* the kernel) or in a failed ASSERT.
Abort(name, ptr, status, kills) ==
  /\ call' = [name |-> name, hasptr |-> TRUE, ptr |-> ptr, returns |-> FALSE,
              ret |-> 0]
  /\ IF status = "fault" /\ kills THEN exit(-1)
     ELSE pc' = "Panic" /\ UNCHANGED exit_status
  /\ UNCHANGED eax

\* palloc_get_page (0) then strlbond (page, ptr, PGSIZE); okPage: the page
\* was there.  Without one, strlbond writes through NULL.
copy_in(ptr, okPage) ==
  IF okPage THEN strlbond(FreshPage, ptr, PGSIZE)
  ELSE [status |-> "fault", dst |-> FreshPage]

SysHalt ==
  /\ Dispatching("SYS_HALT")
  /\ pc' = "Halted"
  /\ call' = [NoSyscall EXCEPT !.name = "halt"]
  /\ UNCHANGED <<Fixed, eax, exit_status, putbuf_out, fs_ops, Descriptors>>

SysExit(status) ==
  /\ Dispatching("SYS_EXIT")
  /\ exit(status)
  /\ call' = [NoSyscall EXCEPT !.name = "exit"]
  /\ UNCHANGED <<Fixed, eax, putbuf_out, fs_ops, Descriptors>>

\* exec.  tid: what process_execute returns; found: get_thread_by_tid finds
\* the child.
SysExec(ptr, okPage, kills, tid, found) ==
  /\ Dispatching("SYS_EXEC")
  /\ IF ptr >= PHYS_BASE
       THEN Return("exec", TRUE, ptr, TRUE, -1, TRUE) /\ UNCHANGED fs_ops
     ELSE
       LET r == copy_in(ptr, okPage)
       IN  IF r.status # "ok"
             THEN Abort("exec", ptr, r.status, kills) /\ UNCHANGED fs_ops
           ELSE
             /\ fs_ops' = Append(fs_ops, [op |-> "process_execute",
                                          name |-> cstring(r.dst, 1)])
             /\ IF tid = TID_ERROR \/ ~found
                  THEN /\ pc' = "Panic"
                       /\ call' = [name |-> "exec", hasptr |-> TRUE,
                                   ptr |-> ptr, returns |-> FALSE, ret |-> 0]
                       /\ UNCHANGED <<eax, exit_status>>
                  ELSE Return("exec", TRUE, ptr, TRUE, tid, TRUE)
  /\ UNCHANGED <<Fixed, putbuf_out, Descriptors>>

\* wait.  status: what process_wait returns.
SysWait(status) ==
  /\ Dispatching("SYS_WAIT")
  /\ Return("wait", FALSE, NULL, TRUE, status, TRUE)
  /\ fs_ops' = Append(fs_ops, [op |-> "process_wait", name |-> <<>>])
  /\ UNCHANGED <<Fixed, putbuf_out, Descriptors>>

\* create and remove.  success: what filesys_create / filesys_remove returns.
SysCreateRemove(num, ptr, okPage, kills, success) ==
  LET name == IF num = "SYS_CREATE" THEN "create" ELSE "remove"
  IN  /\ Dispatching(num)
      /\ IF ptr >= PHYS_BASE
           THEN Return(name, TRUE, ptr, TRUE, 0, TRUE) /\ UNCHANGED fs_ops
         ELSE
           LET r == copy_in(ptr, okPage)
           IN  IF r.status # "ok"
                 THEN Abort(name, ptr, r.status, kills) /\ UNCHANGED fs_ops
               ELSE
                 /\ fs_ops' = Append(fs_ops, [op |-> "filesys_" \o name,
                                              name |-> cstring(r.dst, 1)])
                 /\ Return(name, TRUE, ptr, TRUE, IF success THEN 1 ELSE 0,
                           TRUE)
      /\ UNCHANGED <<Fixed, putbuf_out, Descriptors>>

\* open, t->lastfd being n at the call: t->lastfd at the return.  The counter
\* is incremented once the file is open and decremented again when calloc
\* fails.
open_lastfd_unwinds_always(n, opened, okEntry) ==
  IF opened /\ okEntry THEN n + 1 ELSE n - 1

open_lastfd(n, opened, okEntry) ==
  IF ~opened THEN n
  ELSE IF okEntry THEN n + 1
  ELSE (n + 1) - 1

\* open: what it returns once the name is copied in.
open_fd(n, opened, okEntry) ==
  IF opened /\ okEntry THEN n + 1 ELSE -1

\* open.  opened: filesys_open returns a file; okEntry: calloc returns the
\* struct openfile.
SysOpen(ptr, okPage, kills, opened, okEntry) ==
  /\ Dispatching("SYS_OPEN")
  /\ lastfd < FirstFd + MaxOpen
  /\ IF ptr >= PHYS_BASE
       THEN /\ Return("open", TRUE, ptr, TRUE, -1, TRUE)
            /\ UNCHANGED <<fs_ops, Descriptors>>
     ELSE
       LET r == copy_in(ptr, okPage)
       IN  IF r.status # "ok"
             THEN /\ Abort("open", ptr, r.status, kills)
                  /\ UNCHANGED <<fs_ops, Descriptors>>
           ELSE
             LET fd == open_fd(lastfd, opened, okEntry)
             IN  /\ fs_ops' = Append(fs_ops, [op |-> "filesys_open",
                                              name |-> cstring(r.dst, 1)])
                 /\ lastfd' = open_lastfd(lastfd, opened, okEntry)
                 /\ fds' = IF fd = -1 THEN fds ELSE Append(fds, fd)
                 /\ open_failed' = (open_failed \/ (fd = -1 /\ fds # <<>>))
                 /\ Return("open", TRUE, ptr, TRUE, fd, TRUE)
  /\ UNCHANGED <<Fixed, putbuf_out>>

\* filesize, seek, tell and close: placeholders.
SysPlaceholder(num) ==
  /\ num \in {"SYS_FILESIZE", "SYS_SEEK", "SYS_TELL", "SYS_CLOSE"}
  /\ Dispatching(num)
  /\ CASE num = "SYS_FILESIZE" -> Return("filesize", FALSE, NULL, TRUE, 0, TRUE)
       [] num = "SYS_TELL" -> Return("tell", FALSE, NULL, TRUE, 0, TRUE)
       [] num = "SYS_SEEK" -> Return("seek", FALSE, NULL, FALSE, 0, FALSE)
       [] num = "SYS_CLOSE" -> Return("close", FALSE, NULL, FALSE, 0, FALSE)
  /\ UNCHANGED <<Fixed, putbuf_out, fs_ops, Descriptors>>

SysRead(ptr) ==
  /\ Dispatching("SYS_READ")
  /\ Return("read", TRUE, ptr, TRUE, IF ptr >= PHYS_BASE THEN -1 ELSE 0, TRUE)
  /\ UNCHANGED <<Fixed, putbuf_out, fs_ops, Descriptors>>

\* write.  syscall_handler drops what write returns.
SysWrite(fd, ptr, size, okPage, kills) ==
  /\ Dispatching("SYS_WRITE")
  /\ IF ptr >= PHYS_BASE
       THEN Return("write", TRUE, ptr, TRUE, -1, FALSE) /\ UNCHANGED putbuf_out
     ELSE IF size = 0
       THEN Return("write", TRUE, ptr, TRUE, 0, FALSE) /\ UNCHANGED putbuf_out
     ELSE
       LET w == IF okPage THEN write_loop(fd, FreshPage, ptr, size, 0)
                ELSE [status |-> "fault", out |-> <<>>, wrote |-> 0]
       IN  /\ putbuf_out' = putbuf_out \o w.out
           /\ IF w.status # "ok" THEN Abort("write", ptr, w.status, kills)
              ELSE Return("write", TRUE, ptr, TRUE, w.wrote, FALSE)
  /\ UNCHANGED <<Fixed, fs_ops, Descriptors>>

\* The calls of projects 3 and 4: a printf of the name, nothing else.
SysStub(num) ==
  /\ num \in Stubs
  /\ Dispatching(num)
  /\ Return(num, FALSE, NULL, FALSE, 0, FALSE)
  /\ UNCHANGED <<Fixed, putbuf_out, fs_ops, Descriptors>>

\* default: PANIC ("Wrong System call.\n")
SysDefault ==
  /\ Dispatching("other")
  /\ pc' = "Panic"
  /\ UNCHANGED <<Fixed, call, eax, exit_status, putbuf_out, fs_ops, Descriptors>>

SysNext ==
  \/ \E sp \in StackPointers : Trap(sp)
  \/ ValidateStackPointer
  \/ \E num \in CallNumbers : DecodeCallNumber(num)
  \/ SysHalt
  \/ \E status \in {-1, 0} : SysExit(status)
  \/ \E ptr \in Addrs, okPage, kills, found \in BOOLEAN,
        tid \in {TID_ERROR, 3} :
       SysExec(ptr, okPage, kills, tid, found)
  \/ \E status \in {-1, 0} : SysWait(status)
  \/ \E num \in {"SYS_CREATE", "SYS_REMOVE"}, ptr \in Addrs,
        okPage, kills, success \in BOOLEAN :
       SysCreateRemove(num, ptr, okPage, kills, success)
  \/ \E ptr \in Addrs, okPage, kills, opened, okEntry \in BOOLEAN :
       SysOpen(ptr, okPage, kills, opened, okEntry)
  \/ \E num \in Implemented : SysPlaceholder(num)
  \/ \E ptr \in Addrs : SysRead(ptr)
  \/ \E fd \in {STDOUT_FILENO, 2}, ptr \in Addrs, size \in Lengths,
        okPage, kills \in BOOLEAN :
       SysWrite(fd, ptr, size, okPage, kills)
  \/ \E num \in Stubs : SysStub(num)
  \/ SysDefault

(***************************************************************************)
(* exec and the process it creates, step by step (syscall.c, lines         *)
(* 156-164).  The caller runs process_execute, looks the new thread up,    *)
(* waits on its semaphore loaded and returns; the new thread loads its     *)
(* program, signals loaded and runs until it exits.  A thread that has     *)
(* exited is gone: it is in no list and its struct thread is freed.        *)
(***************************************************************************)
MaxChildren == 3    \* the threads process_execute can create

Tids == 1..MaxChildren

ExecInit ==
  /\ exec_pc = "idle"
  /\ pid = NULL
  /\ child = NULL
  /\ thread = [t \in Tids |-> "none"]
  /\ loaded = [t \in Tids |-> 0]

\* pid = process_execute (cmd_line): the new thread's id, or TID_ERROR when
\* no thread could be created (ok = FALSE, or no thread is left).
ExecProcessExecute(ok) ==
  /\ exec_pc = "idle"
  /\ LET free == {t \in Tids : thread[t] = "none"}
     IN  IF ok /\ free # {}
           THEN LET t == CHOOSE x \in free : \A y \in free : x <= y
                IN  /\ pid' = t
                    /\ thread' = [thread EXCEPT ![t] = "loading"]
           ELSE /\ pid' = TID_ERROR
                /\ UNCHANGED thread
  /\ exec_pc' = "lookup"
  /\ UNCHANGED <<fvars, svars, child, loaded>>

\* get_thread_by_tid finds a thread that exists.
get_thread_by_tid(tid) ==
  IF tid \in Tids /\ thread[tid] \in {"loading", "running"} THEN tid ELSE NULL

\* child = get_thread_by_tid (pid); ASSERT (child);
ExecLookup ==
  /\ exec_pc = "lookup"
  /\ child' = get_thread_by_tid(pid)
  /\ exec_pc' = IF get_thread_by_tid(pid) = NULL THEN "panic" ELSE "sema_down"
  /\ UNCHANGED <<fvars, svars, pid, thread, loaded>>

\* exec without the wait: the caller goes on whatever loaded holds.
ExecSemaDown_no_wait(outcome) ==
  /\ exec_pc = "sema_down"
  /\ exec_pc' = "returned"
  /\ UNCHANGED <<fvars, svars, pid, child, thread, loaded>>

\* sema_down (&child->loaded).  On a thread that exists it waits for the
\* value to be positive and decrements it.  On a thread that has exited it
\* works on freed memory: it may come back, block for ever or stop the
\* kernel (outcome).
ExecSemaDown(outcome) ==
  /\ exec_pc = "sema_down"
  /\ IF thread[child] # "exited"
       THEN /\ loaded[child] > 0
            /\ loaded' = [loaded EXCEPT ![child] = @ - 1]
            /\ exec_pc' = "returned"
       ELSE /\ exec_pc' = outcome
            /\ UNCHANGED loaded
  /\ UNCHANGED <<fvars, svars, pid, child, thread>>

\* return pid; the process is then free to call exec again.
ExecReturn ==
  /\ exec_pc = "returned"
  /\ exec_pc' = "idle"
  /\ pid' = NULL
  /\ child' = NULL
  /\ UNCHANGED <<fvars, svars, thread, loaded>>

\* The new thread, while the kernel runs: the load is over, sema_up (&loaded).
ChildLoaded(t) ==
  /\ exec_pc # "panic"
  /\ thread[t] = "loading"
  /\ thread' = [thread EXCEPT ![t] = "running"]
  /\ loaded' = [loaded EXCEPT ![t] = @ + 1]
  /\ UNCHANGED <<fvars, svars, exec_pc, pid, child>>

\* The new thread exits, while the kernel runs.
ChildExit(t) ==
  /\ exec_pc # "panic"
  /\ thread[t] = "running"
  /\ thread' = [thread EXCEPT ![t] = "exited"]
  /\ UNCHANGED <<fvars, svars, exec_pc, pid, child, loaded>>

ExecNext ==
  \/ \E ok \in BOOLEAN : ExecProcessExecute(ok)
  \/ ExecLookup
  \/ \E outcome \in {"returned", "stuck", "panic"} : ExecSemaDown(outcome)
  \/ ExecReturn
  \/ \E t \in Tids : ChildLoaded(t)
  \/ \E t \in Tids : ChildExit(t)

(***************************************************************************)
(* The specifications: Spec, the frame table; SpecSys, the dispatcher, one *)
(* trap after another; SpecExec, exec and the threads it creates.  Each    *)
(* leaves the other parts at rest.                                         *)
(***************************************************************************)
vars == <<fvars, svars, xvars>>

Init == FrameInit /\ SysQuiet /\ ExecInit

Next == FrameNext

Spec == Init /\ [][Next]_vars

InitSys == FrameInit /\ SysInit /\ ExecInit

NextSys == SysNext

SpecSys == InitSys /\ [][NextSys]_vars

InitExec == FrameInit /\ SysQuiet /\ ExecInit

NextExec == ExecNext

SpecExec == InitExec /\ [][NextExec]_vars

(***************************************************************************)
(* Properties of the frame table (specification Spec).                     *)
(***************************************************************************)
Table == InTable(FrameState)

\* C1: every fte of the frame table has refcnt equal to the number of
\* entries of its reference_list, in every reachable state.
C1_RefcntIsListLength ==
  \A e \in Table : fte[e].refcnt = Len(fte[e].reference_list)

\* C2: a frame_alloc that fails to allocate the fte or the fte_reference
\* leaves the page in the pool and the frame table (its ftes, their links
\* and the hand) exactly as before the call.
C2_FailedAllocChangesNothing ==
  [][(last'.op = "frame_alloc" /\ last'.fail \in {"fte", "ref"})
       => (pool' = pool /\ fte' = fte /\ hand' = hand)]_vars

\* C3: no fte with refcnt zero is in the frame table at the end of a
\* frame_alloc or frame_free call.
C3_NoZeroCountFte ==
  last.op \in {"frame_alloc", "frame_free"}
    => \A e \in Table : fte[e].refcnt # 0

\* The fte reached from the hand by n next links (NULL past a broken link).
RECURSIVE Walk(_)
Walk(n) ==
  IF n = 0 THEN hand
  ELSE LET e == Walk(n - 1)
       IN  IF e \in FteIds THEN fte[e].next ELSE NULL

\* C7: the hand is NULL exactly when the table is empty and otherwise is an
\* fte of the table; following next from the hand meets every allocated fte
\* exactly once and comes back to the hand; and a frame_free that frees the
\* fte at the hand leaves the hand on that fte's successor.
C7_CircularIntegrity ==
  LET n == Cardinality(UsedFtes(FrameState))
  IN  /\ (hand = NULL) = (n = 0)
      /\ n > 0 =>
           /\ \A i \in 0..(n - 1) : Walk(i) \in UsedFtes(FrameState)
           /\ \A i, j \in 0..(n - 1) : i # j => Walk(i) # Walk(j)
           /\ Walk(n) = hand
           /\ \A e \in UsedFtes(FrameState) : fte[fte[e].next].prev = e
      /\ (last.op = "frame_free" /\ last.freed /\ last.athand)
           => hand = last.succ

\* C7's case: a frame_free has freed the fte at the hand and the hand is on
\* the fte that followed it.
C7_Witness ==
  /\ last.op = "frame_free" /\ last.freed /\ last.athand
  /\ hand # NULL /\ hand = last.succ

\* C8: a successful frame_alloc by a process followed at once by frame_free
\* of the returned page by the same process leaves the ftes, the allocated
\* references and the pool as they were before the frame_alloc.
C8_AllocThenFreeRestores ==
  (last.op = "frame_free" /\ last.undo) => Snapshot(FrameState) = last.pre

\* C9: each (process, virtual address) pair is in the reference_list of at
\* most one fte of the table.
C9_PairInOneList ==
  \A c \in Procs, v \in Vaddrs :
    Cardinality({e \in Table :
                   \E i \in 1..Len(fte[e].reference_list) :
                     fte[e].reference_list[i] = [process |-> c, vaddr |-> v]})
      <= 1

\* C10: a frame_free of a physical address that no fte of the table holds
\* changes neither the ftes, nor the references, nor the hand, nor the pool.
C10_FreeOfUnknownIsNoOp ==
  [][(last'.op = "frame_free" /\ ~last'.owned)
       => UNCHANGED <<fte, nrefs, hand, pool>>]_vars

\* C10's case: frame_free has been called, on a table that is not empty,
\* with an address that no fte holds.
C10_Witness ==
  last.op = "frame_free" /\ ~last.owned /\ hand # NULL

\* C16: a frame_alloc (vaddr) by process P that returns a page adds one fte
\* and no other, at the tail of the ring (the last fte met from the hand),
\* with paddr the returned page, refcnt 1 and the single reference
\* (P, vaddr); the returned page is all zero; and what every fte already in
\* the heap holds is as before.
C16_AllocAddsOneFte ==
  [][(last'.op = "frame_alloc" /\ last'.ret # NULL)
       => LET e == last'.p
          IN  /\ e \notin UsedFtes(FrameState)
              /\ UsedFtes(FrameState)' = UsedFtes(FrameState) \cup {e}
              /\ Ring(FrameState)' = Ring(FrameState) \o <<e>>
              /\ fte'[e].paddr = last'.ret
              /\ fte'[e].refcnt = 1
              /\ fte'[e].reference_list =
                   <<[process |-> last'.cur, vaddr |-> last'.arg]>>
              /\ last'.ret \in zeroed'
              /\ \A x \in UsedFtes(FrameState) :
                   Content(FrameState, x)' = Content(FrameState, x)]_vars

\* C16's case: a frame_alloc has returned a page with other ftes already in
\* the table, and the new fte is the last of the ring.
C16_Witness ==
  /\ last.op = "frame_alloc" /\ last.ret # NULL
  /\ Len(Ring(FrameState)) >= 2
  /\ Ring(FrameState)[Len(Ring(FrameState))] = last.p

\* C17: a frame_alloc that finds the pool exhausted runs victim selection
\* once and stops the kernel: it returns no page, and no fte is created,
\* removed or changed, no reference allocated or freed, no page given back.
\* Victim selection runs nowhere else, and nothing runs after the stop.
C17_ExhaustionIsFatal ==
  /\ [][(last'.op = "frame_alloc" /\ last'.fail = "page")
          => /\ pool = {}
             /\ victims' = victims + 1
             /\ panicked'
             /\ last'.ret = NULL
             /\ [e \in FteIds |-> [fte[e] EXCEPT !.next = NULL, !.prev = NULL]]'
                  = [e \in FteIds |-> [fte[e] EXCEPT !.next = NULL,
                                                     !.prev = NULL]]
             /\ UsedFtes(FrameState)' = UsedFtes(FrameState)
             /\ InTable(FrameState)' = InTable(FrameState)
             /\ nrefs' = nrefs
             /\ pool' = pool]_vars
  /\ [][victims' # victims => (last'.op = "frame_alloc" /\ last'.fail = "page")]_vars
  /\ [][~panicked]_vars

\* C17's case: every page is allocated and one more frame_alloc has run
\* victim selection and stopped the kernel.
C17_Witness ==
  /\ last.op = "frame_alloc" /\ last.fail = "page"
  /\ pool = {} /\ panicked /\ victims = 1
  /\ Cardinality(InTable(FrameState)) >= 2

\* C19: no page is in the free pool, and no fte is freed, while a reference
\* to the frame exists: every fte_reference that is allocated is linked into
\* an fte of the heap, and an fte that holds a reference holds a page that
\* is not in the pool.
C19_NoFreeWhileReferenced ==
  /\ Leaked(FrameState) = 0
  /\ \A e \in UsedFtes(FrameState) :
       fte[e].reference_list # <<>> => fte[e].paddr \notin pool

(***************************************************************************)
(* Properties of the dispatcher (specification SpecSys).                   *)
(***************************************************************************)
\* A user pointer at or above PHYS_BASE, or in no mapped page.
BadPtr(p) == p >= PHYS_BASE \/ pg_no(p) \notin mapped

\* C4: once exec, create, remove, open, read or write has been dispatched
\* with a pointer at or above PHYS_BASE or unmapped, the process is terminated
\* with exit status -1, no value has been returned to it, no byte has gone to
\* the console and no file-system operation has been invoked.
C4_BadPointerKills ==
  (call.hasptr /\ BadPtr(call.ptr))
    => /\ pc = "Terminated"
       /\ exit_status = -1
       /\ ~call.returns
       /\ eax = EaxAtTrap
       /\ putbuf_out = <<>>
       /\ fs_ops = <<>>

\* C5: no trap stops the kernel: no PANIC and no failed ASSERT is reached,
\* whatever the stack pointer, the call number, the arguments and the user
\* memory.
C5_NeverStopsKernel == pc # "Panic"

\* A stack pointer at or above PHYS_BASE, or one that does not translate.
BadEsp(e) == e >= PHYS_BASE \/ user_vtop(e) = NullPtr

\* C6: a trap whose stack pointer is at or above PHYS_BASE or does not
\* translate ends, past ValidateStackPointer, with the process terminated
\* with exit status -1 and the call number never read.
C6_BadEspKillsBeforeDecode ==
  (pc \notin {"Idle", "ValidateStackPointer"} /\ BadEsp(esp))
    => /\ pc = "Terminated"
       /\ exit_status = -1
       /\ syscall_num = "none"

\* C11: when a call that returns a value (exec, wait, create, remove, open,
\* filesize, read, write, tell) has come back, f->eax holds the value it
\* returned; after exit, seek and close f->eax is as it was at the trap.
C11_EaxHoldsResult ==
  /\ (pc = "Return" /\ call.returns) => eax = call.ret
  /\ call.name \in {"exit", "seek", "close"} => eax = EaxAtTrap

\* ptr is a mapped user address and the size bytes at ptr lie in mapped user
\* pages.
MappedBuffer(ptr, size) ==
  \A i \in {0} \cup 0..(size - 1) :
    ptr + i < PHYS_BASE /\ pg_no(ptr + i) \in mapped

\* C12: a write to STDOUT_FILENO of size bytes of a mapped user buffer comes
\* back having given putbuf exactly bytes 0 .. size - 1 of the buffer, in
\* order, and returns size.
C12_WriteEmitsBuffer ==
  [][\A ptr \in Addrs, size \in Lengths, okPage, kills \in BOOLEAN :
       (/\ SysWrite(STDOUT_FILENO, ptr, size, okPage, kills)
        /\ okPage
        /\ MappedBuffer(ptr, size))
         => /\ pc' = "Return"
            /\ putbuf_out' = [i \in 1..size |-> UserByte(ptr + i - 1)]
            /\ call'.ret = size]_vars

\* C13: every descriptor a successful open returns to a process is greater
\* than every descriptor returned to it before, whatever opens failed in
\* between, for want of the file or of the descriptor entry.
C13_DescriptorsIncrease ==
  \A i, j \in 1..Len(fds) : i < j => fds[i] < fds[j]

\* C13's case: a successful open, then an open that failed, then a
\* successful open.
C13_Witness ==
  /\ Len(fds) >= 2
  /\ open_failed
  /\ call.name = "open" /\ pc = "Return" /\ call.ret = fds[Len(fds)]

\* The size bytes at src hold no NUL.
NoTerminator(src, size) == \A i \in 0..(size - 1) : UserByte(src + i) # 0

\* The page dst after a copy of the first size - 1 bytes at src and a NUL.
Truncated(dst, src, size) ==
  [i \in 1..PGSIZE |->
     IF i < size THEN UserByte(src + i - 1)
     ELSE IF i = size THEN 0
     ELSE dst[i]]

\* C14: strlbond (dst, src, size) of a mapped user string with no NUL in its
\* first size bytes returns normally with dst holding the first size - 1
\* bytes of the string and then a NUL, the rest of dst untouched.
C14_TruncatesLongString ==
  \A src \in Addrs, size \in 1..PGSIZE :
    (MappedBuffer(src, size) /\ NoTerminator(src, size))
      => LET r == strlbond(FreshPage, src, size)
         IN  /\ r.status = "ok"
             /\ r.dst = Truncated(FreshPage, src, size)

\* C15: when the string at a mapped src has no NUL before the end of its
\* page, the pointer strlbond reads the next page through is what user_vtop
\* gives for the first address of that page.
C15_SecondPageTranslated ==
  \A src \in Addrs :
    (user_vtop(src) # NullPtr /\ str_over_boundary(user_vtop(src)) = "true")
      => second_page(src) = user_vtop(pg_round_down(src + PGSIZE))

(***************************************************************************)
(* Properties of exec (specification SpecExec).                            *)
(***************************************************************************)
\* The thread has signalled loaded.
Signalled(t) == t \in Tids /\ thread[t] \in {"running", "exited"}

\* C18: when exec returns, the thread it created has signalled loaded.
C18_ReturnAfterLoaded == exec_pc = "returned" => Signalled(pid)

\* C18's case: exec has returned the id of a thread that is running.
C18_Witness == exec_pc = "returned" /\ pid \in Tids /\ thread[pid] = "running"

\* C20: once process_execute has created the thread, the caller of exec is
\* never stopped short of its return: neither the kernel stops nor the
\* caller blocks for ever, whenever the thread signals or exits, and a
\* caller that waits on a thread that has signalled can go on.
C20_NoLostWakeup ==
  pid \in Tids
    => /\ exec_pc \notin {"panic", "stuck"}
       /\ (exec_pc = "sema_down" /\ thread[child] = "running")
            => loaded[child] > 0

=============================================================================
